---- MODULE Spec2Model ----
(***************************************************************************)
(* The ERDDAP transfer programs of icos-erddap: the tracking table of      *)
(* database.py, the reconciliation run of update_from_icos.py and the      *)
(* descriptor-generation run of populate_erddap.py.                        *)
(*                                                                         *)
(* A nullable column or value is a sequence of length at most one: NULL is *)
(* <<>> and a value v is <<v>>.  A Python dict of metadata is the set of   *)
(* its <<path, leaf>> pairs; the TEXT that json.dumps makes of it is the   *)
(* sequence of those pairs.  A data object id (TEXT primary key) is an     *)
(* integer, compared as SQLite and sorted() compare the ids.               *)
(***************************************************************************)
EXTENDS Integers, Sequences, FiniteSets, TLC

\* The data object ids that exist in the model.
PIDS == {1, 2}

\* The clock stops the model when it reads MaxTime.
MaxTime == 2

\* The clock of the queries stops at MaxClock.
MaxClock == 8

\* The longest exception message, in characters.
MaxMessage == 4

\* The longest entry of the column of other attributes, in characters.
MaxEntry == 5

\* Number of targets of the tuple unpacking in the loop of update_from_icos.main.
UnpackTargets == 3

NULL == <<>>

Some(v) == <<v>>

----------------------------------------------------------------------------
(* Outcomes of a call: it returns val and leaves the connection in conn,   *)
(* or it raises exc and leaves the connection in conn.                     *)

Ok(c, v) == [exc |-> "none", conn |-> c, val |-> v]

Raise(e, c) == [exc |-> e, conn |-> c, val |-> NULL]

Raised(r) == r.exc # "none"

----------------------------------------------------------------------------
(* Metadata documents.                                                     *)

SOOP == "icosOtcL2Product"

FOS == "icosOtcFosL2Product"

\* The data_object section the central query returns for one data object.
DataObject(spec, name) ==
    { <<"data_object.spec", spec>>,
      <<"data_object.fileName", name>>,
      <<"data_object.stationId", "station">> }

DOC1 == DataObject(SOOP, "f1")

DOC2 == DataObject(SOOP, "f2")

\* A data_object row without its stationId field.
BROKEN == { <<"data_object.spec", SOOP>>, <<"data_object.fileName", "f1">> }

EmptyDict == {}

HasKey(dict, key) == \E kv \in dict : kv[1] = key

Lookup(dict, key) == (CHOOSE kv \in dict : kv[1] = key)[2]

\* The keys of a document, in the order in which the dict holds them.
Keys == << "data_object.spec", "data_object.fileName", "data_object.stationId" >>

RECURSIVE PairsFrom(_, _)
PairsFrom(dict, i) ==
    IF i > Len(Keys) THEN <<>>
    ELSE (IF HasKey(dict, Keys[i]) THEN << <<Keys[i], Lookup(dict, Keys[i])>> >>
          ELSE <<>>) \o PairsFrom(dict, i + 1)

json_dumps(dict) == PairsFrom(dict, 1)

json_loads(text) == { text[i] : i \in 1..Len(text) }

----------------------------------------------------------------------------
(* Sequences and sets.                                                     *)

Range(seq) == { seq[i] : i \in 1..Len(seq) }

Min(S) == CHOOSE x \in S : \A y \in S : x <= y

\* The elements of a set of integers in ascending order.
RECURSIVE SortedSeq(_)
SortedSeq(S) ==
    IF S = {} THEN <<>> ELSE <<Min(S)>> \o SortedSeq(S \ {Min(S)})

----------------------------------------------------------------------------
(* database.py: the data_object table.  A connection sees a table: a       *)
(* function from the ids that have a row to the row.                       *)

Row(metadata, datasets_xml, new, updated, deleted, deleted_time) ==
    [ metadata |-> metadata, datasets_xml |-> datasets_xml, new |-> new,
      updated |-> updated, deleted |-> deleted, deleted_time |-> deleted_time ]

EmptyTable == [ p \in {} |-> Row(NULL, NULL, 1, 0, 0, NULL) ]

Update(c, pid, row) == [ c EXCEPT ![pid] = row ]

Insert(c, pid, row) ==
    [ p \in DOMAIN c \cup {pid} |-> IF p = pid THEN row ELSE c[p] ]

is_in_db(c, pid) == pid \in DOMAIN c

is_deleted(c, pid) ==
    IF pid \notin DOMAIN c THEN Raise("ValueError", c)
    ELSE Ok(c, c[pid].deleted # 0)

\* undelete as it would be without deleted_time = NULL in its UPDATE.
undelete_keeps_time(c, pid) ==
    IF pid \notin DOMAIN c THEN Raise("ValueError", c)
    ELSE Ok(Update(c, pid, [ c[pid] EXCEPT !.deleted = 0,
                                            !.updated = 1 ]), NULL)

undelete(c, pid) ==
    IF pid \notin DOMAIN c THEN Raise("ValueError", c)
    ELSE Ok(Update(c, pid, [ c[pid] EXCEPT !.deleted = 0,
                                            !.deleted_time = NULL,
                                            !.updated = 1 ]), NULL)

\* get_active_pids as it would be without WHERE deleted = 0 in its SELECT.
get_active_pids_all(c) == SortedSeq(DOMAIN c)

\* SELECT id FROM data_object WHERE deleted = 0 ORDER BY id
get_active_pids(c) == SortedSeq({ p \in DOMAIN c : c[p].deleted = 0 })

add_pid(c, pid) ==
    IF pid \in DOMAIN c THEN Raise("IntegrityError", c)
    ELSE Ok(Insert(c, pid, Row(NULL, NULL, 1, 0, 0, NULL)), NULL)

\* mark_deleted as it would be without new = 0, updated = 0 in its UPDATE.
mark_deleted_keeps_flags(c, pid, time) ==
    IF pid \notin DOMAIN c THEN Raise("ValueError", c)
    ELSE Ok(Update(c, pid, [ c[pid] EXCEPT !.deleted = 1,
                                            !.deleted_time = Some(time) ]), NULL)

\* mark_deleted as it would be without the test of c.rowcount.
mark_deleted_unchecked(c, pid, time) ==
    IF pid \notin DOMAIN c THEN Ok(c, NULL)
    ELSE Ok(Update(c, pid, [ c[pid] EXCEPT !.new = 0,
                                            !.updated = 0,
                                            !.deleted = 1,
                                            !.deleted_time = Some(time) ]), NULL)

mark_deleted(c, pid, time) ==
    IF pid \notin DOMAIN c THEN Raise("ValueError", c)
    ELSE Ok(Update(c, pid, [ c[pid] EXCEPT !.new = 0,
                                            !.updated = 0,
                                            !.deleted = 1,
                                            !.deleted_time = Some(time) ]), NULL)

get_metadata(c, pid) ==
    IF pid \notin DOMAIN c THEN Raise("ValueError", c)
    ELSE Ok(c, IF c[pid].metadata = NULL THEN EmptyDict
               ELSE json_loads(c[pid].metadata[1]))

set_metadata(c, pid, metadata) ==
    IF pid \notin DOMAIN c THEN Raise("ValueError", c)
    ELSE Ok(Update(c, pid, [ c[pid] EXCEPT !.metadata = Some(json_dumps(metadata)),
                                            !.updated = 1 ]), NULL)

clear_new(c, pid) ==
    IF pid \notin DOMAIN c THEN Raise("ValueError", c)
    ELSE Ok(Update(c, pid, [ c[pid] EXCEPT !.new = 0 ]), NULL)

write_datasets_xml(c, pid, xml) ==
    IF pid \notin DOMAIN c THEN Raise("ValueError", c)
    ELSE Ok(Update(c, pid, [ c[pid] EXCEPT !.datasets_xml = Some(xml),
                                            !.updated = 0 ]), NULL)

\* SELECT id, new, updated, deleted FROM data_object, one dict per row.
get_pids_with_status(c) ==
    { [ pid |-> p, new |-> c[p].new # 0, updated |-> c[p].updated # 0,
        deleted |-> c[p].deleted # 0 ] : p \in DOMAIN c }

\* The text of a descriptor entry with its active marker replaced.
Deactivated(xml) == [ xml EXCEPT !.active = "false" ]

\* The loop of get_datasets_xml over the rows from position i, ORDER BY id:
\* None.replace and str + None raise.
RECURSIVE ConcatXml(_, _, _, _)
ConcatXml(c, ids, i, xml) ==
    IF i > Len(ids) THEN Ok(c, [ type |-> "str", text |-> xml ])
    ELSE LET record == c[ids[i]] IN
         IF record.datasets_xml = NULL
         THEN Raise(IF record.deleted = 1 THEN "AttributeError" ELSE "TypeError", c)
         ELSE ConcatXml(c, ids, i + 1,
                  Append(xml, IF record.deleted = 1
                              THEN Deactivated(record.datasets_xml[1])
                              ELSE record.datasets_xml[1]))

get_datasets_xml(c) == ConcatXml(c, SortedSeq(DOMAIN c), 1, <<>>)

----------------------------------------------------------------------------
(* icos.py: the remote catalogue.  catalog maps each data object the       *)
(* listing query returns to the data_object fields the metadata query      *)
(* returns for it.                                                         *)

\* One tuple per binding: (pid, expocode, start_time, end_time).  The
\* expocode is the file name without its extension, the times are dates.
DataObjectTuple(pid) == << pid, pid, 0, 1 >>

get_all_data_object_ids(cat) == { DataObjectTuple(pid) : pid \in DOMAIN cat }

\* sorted() of a list of tuples whose first elements differ.
sorted(tuples) ==
    LET first == { t[1] : t \in tuples }
        ids   == SortedSeq(first)
    IN  [ i \in 1..Len(ids) |-> CHOOSE t \in tuples : t[1] = ids[i] ]

\* The second loop of icos.get_metadata from position i: the station of
\* each data object is read from its data_object section.
RECURSIVE StationLoop(_, _, _)
StationLoop(datasets, metadata, i) ==
    IF i > Len(datasets) THEN Ok(NULL, metadata)
    ELSE LET pid == datasets[i][1] IN
         IF ~HasKey(metadata[pid], "data_object.stationId")
         THEN Raise("KeyError", NULL)
         ELSE StationLoop(datasets, metadata, i + 1)

\* icos.get_metadata(datasets): query says whether the queries it runs
\* succeed.  The result maps each pid to its assembled document.
icos_get_metadata(datasets, cat, query) ==
    IF \E i \in 1..Len(datasets) : Len(datasets[i]) # 4
    THEN Raise("ValueError", NULL)
    ELSE IF ~query THEN Raise("TransportFailure", NULL)
    ELSE StationLoop(datasets,
                     [ pid \in { datasets[i][1] : i \in 1..Len(datasets) } |-> cat[pid] ],
                     1)

----------------------------------------------------------------------------
(* update_from_icos.py: the stages of main.                                *)

\* for (pid, start_date, end_date) in datasets: add or undelete, from
\* position i.
RECURSIVE AddLoop(_, _, _)
AddLoop(c, datasets, i) ==
    IF i > Len(datasets) THEN Ok(c, NULL)
    ELSE IF Len(datasets[i]) # UnpackTargets THEN Raise("ValueError", c)
    ELSE LET pid == datasets[i][1]
             r   == IF ~is_in_db(c, pid) THEN add_pid(c, pid)
                    ELSE IF is_deleted(c, pid).val THEN undelete(c, pid)
                    ELSE Ok(c, NULL)
         IN  IF Raised(r) THEN r ELSE AddLoop(r.conn, datasets, i + 1)

\* for pid in newly_deleted_pids: mark_deleted, over the set pids.
RECURSIVE DeleteLoop(_, _, _)
DeleteLoop(c, pids, time) ==
    IF pids = {} THEN Ok(c, NULL)
    ELSE LET pid == CHOOSE p \in pids : TRUE
             r   == mark_deleted(c, pid, time)
         IN  IF Raised(r) THEN r ELSE DeleteLoop(r.conn, pids \ {pid}, time)

newly_deleted_pids(c, datasets) ==
    Range(get_active_pids(c)) \ { datasets[i][1] : i \in 1..Len(datasets) }

\* for pid in metadata.keys(): compare and store, over the ids from
\* position i.
RECURSIVE MetadataLoop(_, _, _, _)
MetadataLoop(c, metadata, ids, i) ==
    IF i > Len(ids) THEN Ok(c, NULL)
    ELSE LET pid      == ids[i]
             existing == get_metadata(c, pid)
         IN  IF Raised(existing) THEN existing
             ELSE LET metadata_updated == existing.val # metadata[pid]
                      r == IF metadata_updated
                           THEN set_metadata(c, pid, metadata[pid])
                           ELSE Ok(c, NULL)
                  IN  IF Raised(r) THEN r
                      ELSE MetadataLoop(r.conn, metadata, ids, i + 1)

----------------------------------------------------------------------------
(* populate_erddap.py.                                                     *)

\* The entry _make_datasets_xml_entry builds.
Entry(pid, spec) == [ datasetID |-> pid, active |-> "true", body |-> spec ]

\* _make_datasets_xml_entry(db, pid): rendering says whether the type
\* specific part of the entry can be built.
make_datasets_xml_entry(c, pid, rendering) ==
    LET metadata == get_metadata(c, pid) IN
    IF Raised(metadata) THEN metadata
    ELSE IF ~HasKey(metadata.val, "data_object.spec") THEN Raise("KeyError", c)
    ELSE LET spec == Lookup(metadata.val, "data_object.spec") IN
         IF spec \notin {SOOP, FOS} THEN Raise("ValueError", c)
         ELSE IF ~rendering THEN Raise("Exception", c)
         ELSE write_datasets_xml(c, pid, Entry(pid, spec))

\* One call a run makes, in the order the run makes it.
Event(op, pid) == [ op |-> op, pid |-> pid ]

\* The loop body if it made the descriptor before it retrieved the payload.
process_dataset_renders_first(c, dataset, download, rendering) ==
    LET made == IF dataset.updated
                THEN make_datasets_xml_entry(c, dataset.pid, rendering)
                ELSE Ok(c, NULL)
        saved == IF dataset.new /\ download THEN {dataset.pid} ELSE {}
        got == IF dataset.new /\ download
               THEN clear_new(made.conn, dataset.pid)
               ELSE Ok(made.conn, NULL)
        render == IF ~dataset.updated THEN <<>>
                  ELSE IF Raised(made)
                  THEN << Event("make_datasets_xml_entry_failed",
                                dataset.pid) >>
                  ELSE << Event("make_datasets_xml_entry", dataset.pid) >>
        retrieval == IF ~dataset.new THEN <<>>
                     ELSE IF ~download
                     THEN << Event("save_to_folder_failed", dataset.pid) >>
                     ELSE << Event("save_to_folder", dataset.pid),
                             Event("clear_new", dataset.pid) >>
    IN  [ exc |-> "none", conn |-> got.conn, val |-> saved,
          events |-> render \o retrieval ]

\* The loop body if it went on to the descriptor after a failed retrieval.
process_dataset_ignores_failure(c, dataset, download, rendering) ==
    LET saved == IF dataset.new /\ download THEN {dataset.pid} ELSE {}
        got == IF dataset.new /\ download THEN clear_new(c, dataset.pid)
               ELSE Ok(c, NULL)
        made == IF dataset.updated
                THEN make_datasets_xml_entry(got.conn, dataset.pid, rendering)
                ELSE Ok(got.conn, NULL)
        retrieval == IF ~dataset.new THEN <<>>
                     ELSE IF ~download
                     THEN << Event("save_to_folder_failed", dataset.pid) >>
                     ELSE << Event("save_to_folder", dataset.pid),
                             Event("clear_new", dataset.pid) >>
        render == IF ~dataset.updated THEN <<>>
                  ELSE IF Raised(made)
                  THEN << Event("make_datasets_xml_entry_failed",
                                dataset.pid) >>
                  ELSE << Event("make_datasets_xml_entry", dataset.pid) >>
    IN  [ exc |-> "none", conn |-> made.conn, val |-> saved,
          events |-> retrieval \o render ]

\* The body of the loop of main for one dataset: download says whether
\* save_to_folder succeeds.  val is the set of pids saved to the folder,
\* events the calls the iteration made.
process_dataset(c, dataset, download, rendering) ==
    LET saved == IF dataset.new /\ download THEN {dataset.pid} ELSE {}
        got == IF ~dataset.new THEN Ok(c, NULL)
               ELSE IF ~download THEN Raise("RetrievalFailure", c)
               ELSE clear_new(c, dataset.pid)
        dataset_ok == ~Raised(got)
        made == IF dataset_ok /\ dataset.updated
                THEN make_datasets_xml_entry(got.conn, dataset.pid, rendering)
                ELSE Ok(got.conn, NULL)
        retrieval == IF ~dataset.new THEN <<>>
                     ELSE IF ~download
                     THEN << Event("save_to_folder_failed", dataset.pid) >>
                     ELSE << Event("save_to_folder", dataset.pid),
                             Event("clear_new", dataset.pid) >>
        render == IF ~(dataset_ok /\ dataset.updated) THEN <<>>
                  ELSE IF Raised(made)
                  THEN << Event("make_datasets_xml_entry_failed",
                                dataset.pid) >>
                  ELSE << Event("make_datasets_xml_entry", dataset.pid) >>
    IN  [ exc |-> "none", conn |-> made.conn, val |-> saved,
          events |-> retrieval \o render ]

\* What the loop of _write_datasets_xml writes for one id: the gridded
\* entry with the main entry inside it, then the main entry.  The string
\* main_dataset_xml.replace returns is dropped, so the main entry is
\* written as it is stored.
gridded_and_main(id, xml, deleted) ==
    LET main_dataset_xml == xml
        gridded_xml == [ datasetID |-> << id, "gridded" >>,
                         active |-> IF deleted THEN "false" ELSE "true",
                         body |-> main_dataset_xml ]
    IN  << gridded_xml, main_dataset_xml >>

\* for id in datasets_xml.keys(), over the ids from position i.
RECURSIVE WriteEntries(_, _, _, _)
WriteEntries(datasets_xml, ids, i, written) ==
    IF i > Len(ids) THEN written
    ELSE WriteEntries(datasets_xml, ids, i + 1,
             written \o gridded_and_main(ids[i], datasets_xml[ids[i]].xml,
                                         datasets_xml[ids[i]].deleted))

\* _write_datasets_xml(config, db): the text get_datasets_xml returns has no
\* keys().
write_final_document(c) ==
    LET datasets_xml == get_datasets_xml(c) IN
    IF Raised(datasets_xml) THEN datasets_xml
    ELSE IF datasets_xml.val.type # "dict" THEN Raise("AttributeError", c)
    ELSE Ok(c, WriteEntries(datasets_xml.val.text,
                            SortedSeq(DOMAIN datasets_xml.val.text), 1, <<>>))

----------------------------------------------------------------------------
(* icos.py: run_query.                                                     *)

\* pause.until(deadline) returning at once.
pause_until_never(clock, deadline) == clock

\* if datetime.now() < _NEXT_QUERY_TIME: pause.until(_NEXT_QUERY_TIME); the
\* time at which run_query goes on.
pause_until(clock, deadline) == IF clock < deadline THEN deadline ELSE clock

\* datetime.now() + (query_time * 2)
next_query_time(clock, query_time) == clock + (query_time * 2)

----------------------------------------------------------------------------
(* csv_retriever/app.py.  A string is a sequence of characters; the two     *)
(* literals of the regular expression of get_csv count as one character     *)
(* each.                                                                    *)

HTTP_RESPONSE_CODE == "HTTP response code: "
RESPONSE == ", response: "
NEWLINE == "\n"
Digits == {"4", "0"}
Characters == {"x", NEWLINE, HTTP_RESPONSE_CODE, RESPONSE} \cup Digits

\* The strings over alphabet of at most n characters.
Strings(alphabet, n) == UNION { [ 1..k -> alphabet ] : k \in 0..n }

\* s[from..to]
Slice(s, from, to) == [ i \in 1..(to - from + 1) |-> s[from + i - 1] ]

\* int() of a string of digits.
RECURSIVE int(_)
int(digits) ==
    IF digits = <<>> THEN 0
    ELSE 10 * int(Slice(digits, 1, Len(digits) - 1))
         + (IF digits[Len(digits)] = "4" THEN 4 ELSE 0)

\* The length of the longest prefix of s[from..] that "." matches: "."
\* matches any character but a newline.
RECURSIVE DotStar(_, _)
DotStar(s, from) ==
    IF from > Len(s) \/ s[from] = NEWLINE THEN 0
    ELSE 1 + DotStar(s, from + 1)

\* The length of the run of digits at s[from..].
RECURSIVE DigitRun(_, _)
DigitRun(s, from) ==
    IF from > Len(s) \/ s[from] \notin Digits THEN 0
    ELSE 1 + DigitRun(s, from + 1)

\* regex.match(s) for '.*HTTP response code: ([0-9]+), response: (.*)':
\* NULL for None, else the groups 1 and 2.  The match starts at the start of
\* s; the first ".*" is greedy, so the last place where the rest matches
\* is taken.
regex_match(s) ==
    LET places == { i \in 1..Len(s) :
                      /\ DotStar(s, 1) >= i - 1
                      /\ s[i] = HTTP_RESPONSE_CODE
                      /\ DigitRun(s, i + 1) >= 1
                      /\ i + DigitRun(s, i + 1) + 1 <= Len(s)
                      /\ s[i + DigitRun(s, i + 1) + 1] = RESPONSE }
    IN  IF places = {} THEN NULL
        ELSE LET i == CHOOSE j \in places : \A k \in places : k <= j
                 n == DigitRun(s, i + 1)
             IN  Some(<< Slice(s, i + 1, i + n),
                         Slice(s, i + n + 2, i + n + 1 + DotStar(s, i + n + 2)) >>)

\* What data.get_csv_byte_stream(pid) does: it returns the content, or it
\* raises an exception with args.  For a failure of the HTTP request status
\* and response are those of the reply and args[0] is the message with
\* them.
Returned(content) ==
    [ kind |-> "ok", content |-> content, args |-> <<>>, status |-> <<>>,
      response |-> <<>> ]
HttpFailure(before, status, response) ==
    [ kind |-> "http", content |-> <<>>,
      args |-> << before \o << HTTP_RESPONSE_CODE >> \o status
                         \o << RESPONSE >> \o response >>,
      status |-> status, response |-> response ]
OtherFailure(args) ==
    [ kind |-> "other", content |-> <<>>, args |-> args, status |-> <<>>,
      response |-> <<>> ]

\* The response of the handler, or the exception that leaves it.
Response(body, status) == [ exc |-> "none", body |-> body, status |-> status ]
Fails(exc) == [ exc |-> exc, body |-> <<>>, status |-> 0 ]

\* get_csv(pid), for what data.get_csv_byte_stream(pid) does.
get_csv(stream) ==
    IF stream.kind = "ok" THEN Response(stream.content, 200)
    ELSE IF stream.args = <<>> THEN Fails("IndexError")
    ELSE LET match == regex_match(stream.args[1]) IN
         IF match = NULL THEN Fails("TypeError")
         ELSE Response(match[1][2], int(match[1][1]))

----------------------------------------------------------------------------
(* populate_erddap.py: an entry of the column of other attributes, one of  *)
(* the strings split(";") gives.                                           *)

\* The arguments of Attribute(attr_name, attr_value, attr_type); typed is
\* whether the third one is passed.
AttributeArgs(attr_name, attr_type, attr_value) ==
    [ exc |-> "none", name |-> attr_name, type |-> attr_type,
      value |-> attr_value, typed |-> Len(attr_type) # 0 ]

InvalidAttribute == [ exc |-> "ValueError", name |-> <<>>, type |-> <<>>,
                      value |-> <<>>, typed |-> FALSE ]

\* re.search("(.*):(.*)=(.*)", attr) and m.group(1, 2, 3): both ".*" before
\* a separator are greedy, so the name ends at the last ":" that has an "="
\* after it and the type at the last "=".
parse_attribute(attr) ==
    LET equals == { j \in 1..Len(attr) : attr[j] = "=" }
        colons == { i \in 1..Len(attr) :
                      attr[i] = ":" /\ \E j \in equals : j > i }
    IN  IF colons = {} THEN InvalidAttribute
        ELSE LET i == CHOOSE c \in colons : \A k \in colons : k <= c
                 j == CHOOSE e \in equals : \A k \in equals : k <= e
             IN  AttributeArgs(Slice(attr, 1, i - 1),
                               Slice(attr, i + 1, j - 1),
                               Slice(attr, j + 1, Len(attr)))

----------------------------------------------------------------------------
(* State.                                                                  *)

VARIABLES
    db,        \* the committed data_object table of erddap_transfer.sqlite
    conn,      \* the table as the open connection sees it
    pc,        \* where the running program is; "idle" between runs
    run,       \* the program that is running, "none" between runs
    catalog,   \* the Carbon Portal: data object id -> data_object fields
    now,       \* datetime.now(), in ticks of one run
    datasets,  \* update_from_icos.main: the sorted listing
    todo,      \* populate_erddap.main: the datasets still to process
    files,     \* the pids whose payload is in datasets_dir
    out,       \* the datasets.xml file: "none", "partial" or "complete"
    obs,       \* what the queries of the current run returned
    prev,      \* the run that ended last: program, obs, exit status,
               \* whether it changed the committed table, whether it
               \* lost changes of its transaction
    ret,       \* the last call of a database function: op, pid, exc
    events,    \* the calls the current run has made, in order
    throttle,  \* icos.py: the clock, _NEXT_QUERY_TIME and the query in hand
    call       \* a function called on its own: fn, arg, result

vars == << db, conn, pc, run, catalog, now, datasets, todo, files,
           out, obs, prev, ret, events, throttle, call >>

\* What the two programs and the functions of database.py leave alone.
others == << throttle, call >>

NoObs == [ listed |-> FALSE, metadata |-> "none" ]

NoRun == [ run |-> "none", obs |-> NoObs, exit |-> 0, changed |-> FALSE,
           lost |-> FALSE ]

NoCall == [ op |-> "none", pid |-> 0, exc |-> "none" ]

\* _NEXT_QUERY_TIME = None, no query made yet.
NoThrottle == [ clock |-> 0, next_query_time |-> NULL, at |-> "idle",
                query_start |-> 0, query_end |-> 0, last |-> NULL ]

NoFunction == [ fn |-> "none", arg |-> <<>>, result |-> <<>> ]

\* The events op leaves for those of the ids, in their order, that are in
\* done.
Log(op, ids, done) ==
    LET all == [ i \in 1..Len(ids) |-> Event(op, ids[i]) ]
        Keep(e) == e.pid \in done
    IN  SelectSeq(all, Keep)

\* The rows the calls of the two programs can leave in the table for pid,
\* stamped before the clock of the model starts:
\*   add_pid             no metadata, no descriptor, new, not updated;
\*   set_metadata        metadata, updated;
\*   clear_new           not new;
\*   write_datasets_xml  metadata and descriptor, not updated;
\*   mark_deleted        not new, not updated, deleted;
\*   undelete            not new, updated, not deleted.
InitialRows(pid) ==
    LET M == Some(json_dumps(DOC1))
        X == Some(Entry(pid, SOOP))
    IN  { Row(NULL, NULL, 1, 0, 0, NULL),
          Row(NULL, NULL, 0, 0, 0, NULL),
          Row(NULL, NULL, 0, 1, 0, NULL),
          Row(M, NULL, 1, 1, 0, NULL),
          Row(M, NULL, 0, 1, 0, NULL),
          Row(M, X, 1, 0, 0, NULL),
          Row(M, X, 1, 1, 0, NULL),
          Row(M, X, 0, 0, 0, NULL),
          Row(M, X, 0, 1, 0, NULL),
          Row(NULL, NULL, 0, 0, 1, Some(0)),
          Row(M, NULL, 0, 0, 1, Some(0)),
          Row(M, X, 0, 0, 1, Some(0)) }

InitialTables ==
    UNION { { t \in [ ids -> UNION { InitialRows(p) : p \in ids } ] :
                \A p \in ids : t[p] \in InitialRows(p) }
            : ids \in SUBSET PIDS }

Catalogs == UNION { [ ids -> {DOC1, DOC2, BROKEN} ] : ids \in SUBSET PIDS }

Init ==
    /\ db \in InitialTables
    /\ conn = db
    /\ pc = "idle"
    /\ run = "none"
    /\ catalog \in Catalogs
    /\ now = 0
    /\ datasets = <<>>
    /\ todo = <<>>
    /\ files = { p \in DOMAIN db : db[p].new = 0 }
    /\ out = "none"
    /\ obs = NoObs
    /\ prev = NoRun
    /\ ret = NoCall
    /\ events = <<>>
    /\ throttle = NoThrottle
    /\ call = NoFunction

----------------------------------------------------------------------------
(* update_from_icos.main.                                                  *)

\* with database.connect() as db
StartUpdate ==
    /\ pc = "idle"
    /\ now < MaxTime
    /\ pc' = "u_list"
    /\ run' = "update"
    /\ conn' = db
    /\ now' = now + 1
    /\ datasets' = <<>>
    /\ obs' = NoObs
    /\ events' = <<>>
    /\ UNCHANGED << db, catalog, todo, files, out, prev, ret, others >>

\* datasets = sorted(icos.get_all_data_object_ids())
ListRemote ==
    /\ pc = "u_list"
    /\ \E query \in BOOLEAN :
          IF query
          THEN /\ datasets' = sorted(get_all_data_object_ids(catalog))
               /\ obs' = [ obs EXCEPT !.listed = TRUE ]
               /\ pc' = "u_add"
          ELSE /\ pc' = "abort"
               /\ UNCHANGED << datasets, obs >>
    /\ events' = Append(events, Event("get_all_data_object_ids", 0))
    /\ UNCHANGED << db, conn, run, catalog, now, todo, files, out, prev, ret,
                    others >>

\* the loop that adds and undeletes
AddOrUndelete ==
    /\ pc = "u_add"
    /\ LET r == AddLoop(conn, datasets, 1)
           ids == [ i \in 1..Len(datasets) |-> datasets[i][1] ]
           Added(p) == p \notin DOMAIN conn /\ p \in DOMAIN r.conn
           Undeleted(p) == /\ p \in DOMAIN conn
                           /\ conn[p].deleted = 1
                           /\ r.conn[p].deleted = 0
       IN /\ conn' = r.conn
          /\ pc' = IF Raised(r) THEN "abort" ELSE "u_delete"
          /\ events' = events \o Log("add_pid", ids, { p \in Range(ids) : Added(p) })
                              \o Log("undelete", ids,
                                    { p \in Range(ids) : Undeleted(p) })
    /\ UNCHANGED << db, run, catalog, now, datasets, todo, files, out, obs,
                    prev, ret, others >>

\* the loop that marks the ids missing from the listing
MarkDeleted ==
    /\ pc = "u_delete"
    /\ LET pids == newly_deleted_pids(conn, datasets)
           r == DeleteLoop(conn, pids, now)
           Marked(p) == conn[p].deleted = 0 /\ r.conn[p].deleted = 1
       IN /\ conn' = r.conn
          /\ pc' = IF Raised(r) THEN "abort" ELSE "u_metadata"
          /\ events' = events \o Log("mark_deleted", SortedSeq(pids),
                                        { p \in pids : Marked(p) })
    /\ UNCHANGED << db, run, catalog, now, datasets, todo, files, out, obs,
                    prev, ret, others >>

\* metadata = icos.get_metadata(datasets) and the loop that stores it
RefreshMetadata ==
    /\ pc = "u_metadata"
    /\ \E query \in BOOLEAN :
          LET metadata == icos_get_metadata(datasets, catalog, query) IN
          IF Raised(metadata)
          THEN /\ obs' = [ obs EXCEPT !.metadata = "failed" ]
               /\ pc' = "abort"
               /\ events' = Append(events, Event("get_metadata", 0))
               /\ UNCHANGED conn
          ELSE LET ids == [ i \in 1..Len(datasets) |-> datasets[i][1] ]
                   r == MetadataLoop(conn, metadata.val, ids, 1)
                   Stored(p) == p \in DOMAIN conn /\ r.conn[p] # conn[p]
               IN  /\ obs' = [ obs EXCEPT !.metadata = "ok" ]
                   /\ conn' = r.conn
                   /\ pc' = IF Raised(r) THEN "abort" ELSE "commit"
                   /\ events' = Append(events, Event("get_metadata", 0))
                                    \o Log("set_metadata", ids,
                                           { p \in Range(ids) : Stored(p) })
    /\ UNCHANGED << db, run, catalog, now, datasets, todo, files, out, prev,
                    ret, others >>

----------------------------------------------------------------------------
(* populate_erddap.main.                                                   *)

\* The orders in which a SELECT without ORDER BY can return the rows.
Orders(S) ==
    { seq \in [ 1..Cardinality(S) -> S ] : Range(seq) = S }

\* _check_config, connect and get_pids_with_status
StartPopulate ==
    /\ pc = "idle"
    /\ \E dirs \in BOOLEAN :
          IF dirs
          THEN /\ run' = "populate"
               /\ conn' = db
               /\ todo' \in Orders(get_pids_with_status(db))
               /\ pc' = IF todo' = <<>> THEN "p_write" ELSE "p_loop"
               /\ UNCHANGED prev
          ELSE /\ prev' = [ run |-> "populate", obs |-> NoObs, exit |-> 1,
                            changed |-> FALSE, lost |-> FALSE ]
               /\ UNCHANGED << run, conn, todo, pc >>
    /\ events' = <<>>
    /\ UNCHANGED << db, catalog, now, datasets, files, out, obs, ret, others >>

\* one iteration of for dataset in datasets
ProcessDataset ==
    /\ pc = "p_loop"
    /\ todo # <<>>
    /\ \E download \in BOOLEAN, rendering \in BOOLEAN :
          LET r == process_dataset(conn, Head(todo), download, rendering) IN
          /\ conn' = r.conn
          /\ files' = files \cup r.val
          /\ events' = events \o r.events
    /\ todo' = Tail(todo)
    /\ pc' = IF Tail(todo) = <<>> THEN "p_write" ELSE "p_loop"
    /\ UNCHANGED << db, run, catalog, now, datasets, out, obs, prev, ret,
                    others >>

\* _write_datasets_xml(config, db): the file is opened for writing before
\* the descriptors are read
WriteDatasetsXml ==
    /\ pc = "p_write"
    /\ LET r == write_final_document(conn) IN
          /\ out' = IF Raised(r) THEN "partial" ELSE "complete"
          /\ pc' = IF Raised(r) THEN "abort" ELSE "commit"
    /\ events' = Append(events, Event("write_datasets_xml_file", 0))
    /\ UNCHANGED << db, conn, run, catalog, now, datasets, todo, files, obs,
                    prev, ret, others >>

----------------------------------------------------------------------------
(* The connection as a context manager: commit when the block ends,        *)
(* roll back when an exception leaves it; main then calls exit(1).         *)

Commit ==
    /\ pc = "commit"
    /\ db' = conn
    /\ pc' = "idle"
    /\ run' = "none"
    /\ datasets' = <<>>
    /\ todo' = <<>>
    /\ obs' = NoObs
    /\ events' = <<>>
    /\ prev' = [ run |-> run, obs |-> obs, exit |-> 0, changed |-> conn # db,
                 lost |-> FALSE ]
    /\ UNCHANGED << conn, catalog, now, files, out, ret, others >>

\* The end of a run whose exception is caught inside the with block: the
\* connection commits what the run did before it failed.
RollbackCommits ==
    /\ pc = "abort"
    /\ db' = conn
    /\ pc' = "idle"
    /\ run' = "none"
    /\ datasets' = <<>>
    /\ todo' = <<>>
    /\ obs' = NoObs
    /\ events' = <<>>
    /\ prev' = [ run |-> run, obs |-> obs, exit |-> 1, changed |-> conn # db,
                 lost |-> FALSE ]
    /\ UNCHANGED << conn, catalog, now, files, out, ret, others >>

Rollback ==
    /\ pc = "abort"
    /\ conn' = db
    /\ pc' = "idle"
    /\ run' = "none"
    /\ datasets' = <<>>
    /\ todo' = <<>>
    /\ obs' = NoObs
    /\ events' = <<>>
    /\ prev' = [ run |-> run, obs |-> obs, exit |-> 1, changed |-> FALSE,
                 lost |-> conn # db ]
    /\ UNCHANGED << db, catalog, now, files, out, ret, others >>

Next ==
    \/ StartUpdate
    \/ ListRemote
    \/ AddOrUndelete
    \/ MarkDeleted
    \/ RefreshMetadata
    \/ StartPopulate
    \/ ProcessDataset
    \/ WriteDatasetsXml
    \/ Commit
    \/ Rollback

Spec == Init /\ [][Next]_vars

----------------------------------------------------------------------------
(* The functions of database.py called one at a time, in any order and     *)
(* with any id, on one connection to a new database.                       *)

EmptyCatalog == [ p \in {} |-> DOC1 ]

InitStore ==
    /\ db = EmptyTable
    /\ conn = EmptyTable
    /\ pc = "api"
    /\ run = "none"
    /\ catalog = EmptyCatalog
    /\ now = 0
    /\ datasets = <<>>
    /\ todo = <<>>
    /\ files = {}
    /\ out = "none"
    /\ obs = NoObs
    /\ prev = NoRun
    /\ ret = NoCall
    /\ events = <<>>
    /\ throttle = NoThrottle
    /\ call = NoFunction

Returns(op, pid, r) ==
    /\ pc = "api"
    /\ conn' = r.conn
    /\ ret' = [ op |-> op, pid |-> pid, exc |-> r.exc ]
    /\ UNCHANGED << db, pc, run, catalog, datasets, todo, files, out, obs,
                    prev, events, others >>

CallAddPid ==
    \E pid \in PIDS :
        Returns("add_pid", pid, add_pid(conn, pid)) /\ UNCHANGED now

CallIsDeleted ==
    \E pid \in PIDS :
        Returns("is_deleted", pid, is_deleted(conn, pid)) /\ UNCHANGED now

CallMarkDeleted ==
    \E pid \in PIDS :
        /\ now < MaxTime
        /\ now' = now + 1
        /\ Returns("mark_deleted", pid, mark_deleted(conn, pid, now'))

CallUndelete ==
    \E pid \in PIDS :
        Returns("undelete", pid, undelete(conn, pid)) /\ UNCHANGED now

CallSetMetadata ==
    \E pid \in PIDS, metadata \in {DOC1, DOC2} :
        Returns("set_metadata", pid, set_metadata(conn, pid, metadata))
        /\ UNCHANGED now

CallClearNew ==
    \E pid \in PIDS :
        Returns("clear_new", pid, clear_new(conn, pid)) /\ UNCHANGED now

CallWriteDatasetsXml ==
    \E pid \in PIDS :
        Returns("write_datasets_xml", pid,
                write_datasets_xml(conn, pid, Entry(pid, SOOP)))
        /\ UNCHANGED now

NextStore ==
    \/ CallAddPid
    \/ CallIsDeleted
    \/ CallMarkDeleted
    \/ CallUndelete
    \/ CallSetMetadata
    \/ CallClearNew
    \/ CallWriteDatasetsXml

SpecStore == InitStore /\ [][NextStore]_vars

----------------------------------------------------------------------------
(* What a run leaves behind.                                               *)

\* The run has reached the end of its with block, or left it by an exception.
RunEnds == pc \in {"commit", "abort"}

\* The committed table once the connection has committed or rolled back.
PostStore == IF pc = "commit" THEN conn ELSE db

Remote == DOMAIN catalog

Active(c) == { p \in DOMAIN c : c[p].deleted = 0 }

\* A reconciliation run whose listing query answered and whose metadata
\* queries did not fail has reached its end.
UpdateEnds ==
    /\ run = "update"
    /\ RunEnds
    /\ obs.listed
    /\ obs.metadata # "failed"

\* The metadata stored for p before the run, as get_metadata reads it; a new
\* id has none.
StoredMetadata(p) ==
    IF p \in DOMAIN db THEN get_metadata(db, p).val ELSE EmptyDict

----------------------------------------------------------------------------
(* Claims.                                                                 *)

\* C1: a reconciliation run that follows a reconciliation run and gets the
\* same answers from the catalogue leaves every row of the table as the
\* first run left it.
C1_ReconciliationIdempotent ==
    ( /\ run = "update"
      /\ RunEnds
      /\ prev.run = "update"
      /\ prev.obs = obs )
    => PostStore = db

\* C1 witness: the second of two reconciliation runs with the same answers
\* commits, after a first run that changed the table.
C1_Witness ==
    /\ run = "update"
    /\ pc = "commit"
    /\ prev.run = "update"
    /\ prev.obs = obs
    /\ prev.changed
    /\ \E p \in DOMAIN db : db[p].deleted_time = Some(now - 1)

\* C2 (as claimed): a step of a run takes the updated flag of a row from 1
\* to 0 only if it is the step that writes the descriptor of that row.
C2_OnlyWriteDescriptorClears ==
    [][ \A p \in DOMAIN conn \cap DOMAIN conn' :
          ( /\ pc # "abort"
            /\ conn[p].updated = 1
            /\ conn'[p].updated = 0 )
          => ( /\ pc = "p_loop"
               /\ Head(todo).pid = p
               /\ conn'[p].datasets_xml # NULL )
      ]_vars

\* C3 (as claimed): a row whose new flag is 0 belongs to a data object whose
\* payload has been saved to the datasets directory.
C3_NotNewImpliesRetrieved ==
    \A p \in DOMAIN conn : conn[p].new = 0 => p \in files

\* C4 (as claimed): when a descriptor-generation run in which the download or
\* the rendering failed for some data object ends, the run has completed the
\* final document and every other data object whose descriptor it rendered
\* keeps that descriptor with updated cleared.
C4_FailureDoesNotStopOthers ==
    ( /\ run = "populate"
      /\ RunEnds
      /\ \E q \in DOMAIN db :
            \/ db[q].new = 1 /\ conn[q].new = 1
            \/ db[q].updated = 1 /\ conn[q].updated = 1 )
    => \A p \in DOMAIN db :
          ( db[p].updated = 1 /\ conn[p].updated = 0 )
          => ( /\ pc = "commit"
               /\ out = "complete"
               /\ PostStore[p].updated = 0
               /\ PostStore[p].datasets_xml # NULL )

\* C5 (as claimed): when a reconciliation run whose listing answered ends,
\* and the metadata of one remote data object cannot be assembled, the run
\* commits and every other remote data object whose assembled metadata
\* differs from the stored metadata has the assembled metadata stored.
C5_MetadataFailureSkipsOneEntity ==
    ( /\ run = "update"
      /\ RunEnds
      /\ obs.listed
      /\ \E q \in Remote : catalog[q] = BROKEN )
    => \A p \in Remote :
          ( catalog[p] # BROKEN /\ catalog[p] # StoredMetadata(p) )
          => ( /\ pc = "commit"
               /\ p \in DOMAIN PostStore
               /\ PostStore[p].metadata = Some(json_dumps(catalog[p]))
               /\ PostStore[p].updated = 1 )

\* C6 (as claimed): when a reconciliation run ends, every id that was deleted
\* in the table and is in the listing is not deleted, has no deletion time
\* and has the new flag it had before the run.
C6_ReappearedIdsUndeleted ==
    UpdateEnds
    => \A p \in Remote \cap DOMAIN db :
          db[p].deleted = 1
          => ( /\ PostStore[p].deleted = 0
               /\ PostStore[p].deleted_time = NULL
               /\ PostStore[p].new = db[p].new )

\* C7 (as claimed): when a reconciliation run ends, every id that was active
\* and is missing from the listing is deleted with the time of the run, and
\* every id that was active and is in the listing is active with no
\* deletion time.
C7_MissingIdsDeleted ==
    UpdateEnds
    => /\ \A p \in Active(db) \ Remote :
             /\ PostStore[p].deleted = 1
             /\ PostStore[p].deleted_time = Some(now)
       /\ \A p \in Active(db) \cap Remote :
             /\ PostStore[p].deleted = 0
             /\ PostStore[p].deleted_time = NULL

\* C8 (as claimed): when a reconciliation run ends, every id of the listing
\* that had no row has a row with new = 1 and deleted = 0 and is among the
\* active ids.
C8_UnknownIdsAdded ==
    UpdateEnds
    => \A p \in Remote \ DOMAIN db :
          /\ p \in DOMAIN PostStore
          /\ PostStore[p].new = 1
          /\ PostStore[p].deleted = 0
          /\ p \in Range(get_active_pids(PostStore))

\* C9: after any sequence of calls of the functions of database.py, a row
\* has deleted = 1 exactly when its deleted_time is not NULL.
C9_DeletedIffDeletedTime ==
    \A p \in DOMAIN conn :
        conn[p].deleted = 1 <=> conn[p].deleted_time # NULL

\* C9 witness: undelete has just succeeded on a row, which mark_deleted had
\* stamped before, while another row is deleted.
C9_Witness ==
    /\ ret.op = "undelete"
    /\ ret.exc = "none"
    /\ now > 0
    /\ conn[ret.pid].deleted = 0
    /\ \E q \in DOMAIN conn : conn[q].deleted = 1 /\ conn[q].deleted_time # NULL

\* C10 (as claimed): when a reconciliation run ends in which the metadata of
\* every remote data object can be assembled, a remote data object whose
\* assembled metadata differs from the stored metadata has the assembled
\* metadata stored and updated = 1, and one whose assembled metadata equals
\* the stored metadata keeps its stored metadata.
C10_MetadataChangeDetected ==
    ( /\ UpdateEnds
      /\ \A q \in Remote : catalog[q] # BROKEN )
    => \A p \in Remote :
          IF catalog[p] # StoredMetadata(p)
          THEN /\ p \in DOMAIN PostStore
               /\ PostStore[p].metadata = Some(json_dumps(catalog[p]))
               /\ PostStore[p].updated = 1
          ELSE /\ PostStore[p].metadata = db[p].metadata
               /\ PostStore[p].updated = db[p].updated

----------------------------------------------------------------------------
(* Descriptor generation.                                                  *)

\* The events of the current run that are about pid.
EventsOf(pid) == SelectSeq(events, LAMBDA e : e.pid = pid)

\* The current run has made the call op for pid.
Happened(op, pid) == \E i \in 1..Len(events) : events[i] = Event(op, pid)

\* C11: when save_to_folder fails for a new dataset in a run of
\* populate_erddap, the run makes no other call for that dataset (no
\* clear_new, no descriptor), its row in the transaction is the row the run
\* started with, and when the run ends the row still has new = 1 and the
\* updated flag it had before the run.
C11_FailedRetrievalSkipsEntity ==
    run = "populate" =>
        \A p \in DOMAIN conn :
            Happened("save_to_folder_failed", p) =>
                /\ db[p].new = 1
                /\ EventsOf(p) = << Event("save_to_folder_failed", p) >>
                /\ conn[p] = db[p]
                /\ RunEnds => /\ PostStore[p].new = 1
                              /\ PostStore[p].updated = db[p].updated

\* A run ends in which the retrieval failed for a new dataset whose
\* descriptor was due, while the descriptor of another dataset was made.
C11_Witness ==
    /\ run = "populate"
    /\ RunEnds
    /\ \E p \in DOMAIN conn, q \in DOMAIN conn :
          /\ p # q
          /\ Happened("save_to_folder_failed", p)
          /\ db[p].updated = 1
          /\ db[p].metadata # NULL
          /\ Happened("make_datasets_xml_entry", q)

\* The entries of a document that are about pid: its main entry, alone or
\* inside a gridded entry, and its gridded entry.
EntriesOf(document, pid) ==
    { document[i] : i \in { j \in 1..Len(document) :
                               \/ document[j].datasetID = pid
                               \/ document[j].datasetID = << pid, "gridded" >> } }
    \cup { document[i].body : i \in { j \in 1..Len(document) :
                               document[j].datasetID = << pid, "gridded" >> } }

\* C12: when a run of populate_erddap reaches the final assembly with a
\* descriptor stored for every row, one of them deleted, the document is assembled, and in it
\* the gridded entry and both copies of the main entry of every deleted row
\* carry active="false", and those of every other row active="true".
C12_DeletedEntriesInactive ==
    ( /\ run = "populate"
      /\ RunEnds
      /\ \E p \in DOMAIN conn : conn[p].deleted = 1
      /\ \A p \in DOMAIN conn : conn[p].datasets_xml # NULL ) =>
        LET r == write_final_document(conn) IN
        /\ ~Raised(r)
        /\ out = "complete"
        /\ \A p \in DOMAIN conn :
              /\ EntriesOf(r.val, p) # {}
              /\ \A e \in EntriesOf(r.val, p) :
                    e.active = IF conn[p].deleted = 1 THEN "false" ELSE "true"

----------------------------------------------------------------------------
(* The order of the calls of a run.                                        *)

\* The stage of a run a call belongs to: the listing, the loops that add,
\* undelete and mark deleted, the metadata; the retrieval of a payload, the
\* making of a descriptor, the final assembly.
Stage(op) ==
    CASE op = "get_all_data_object_ids" -> 1
      [] op \in {"add_pid", "undelete", "mark_deleted"} -> 2
      [] op \in {"get_metadata", "set_metadata"} -> 3
      [] op \in {"save_to_folder", "save_to_folder_failed", "clear_new"} -> 4
      [] op \in {"make_datasets_xml_entry",
                 "make_datasets_xml_entry_failed"} -> 5
      [] op = "write_datasets_xml_file" -> 6

\* C13 as stated: the calls of a run are made stage by stage: no call of a
\* later stage is made before a call of an earlier one, so every retrieval
\* of a payload is made before every descriptor.
C13_StagesInStrictOrder ==
    \A i \in 1..Len(events), j \in 1..Len(events) :
        i < j => Stage(events[i].op) <= Stage(events[j].op)

\* C13 amended: the calls of a run are made stage by stage, except that
\* the descriptor of one dataset is made before the payload of another
\* dataset is retrieved: the retrieval of a dataset comes before the
\* descriptor of that dataset, and both before the final assembly.
C13_StagesInOrderPerDataset ==
    \A i \in 1..Len(events), j \in 1..Len(events) :
        i < j =>
            \/ Stage(events[i].op) <= Stage(events[j].op)
            \/ /\ Stage(events[i].op) = 5
               /\ Stage(events[j].op) = 4
               /\ events[i].pid # events[j].pid

\* A run retrieved the payload and made the descriptor of one dataset, then
\* of another, and went on to the final assembly.
C13_Witness ==
    /\ run = "populate"
    /\ RunEnds
    /\ \E p \in DOMAIN conn, q \in DOMAIN conn :
          /\ p # q
          /\ events = << Event("save_to_folder", p), Event("clear_new", p),
                         Event("make_datasets_xml_entry", p),
                         Event("save_to_folder", q), Event("clear_new", q),
                         Event("make_datasets_xml_entry", q),
                         Event("write_datasets_xml_file", 0) >>

----------------------------------------------------------------------------
(* icos.py: the calls of run_query of one process, one after the other.    *)
(* The clock is read four times in a call and may advance between any two  *)
(* reads.                                                                  *)

run_state == << db, conn, pc, run, catalog, now, datasets, todo, files, out,
                obs, prev, ret, events >>

InitThrottle ==
    /\ db = EmptyTable
    /\ conn = EmptyTable
    /\ pc = "icos"
    /\ run = "none"
    /\ catalog = EmptyCatalog
    /\ now = 0
    /\ datasets = <<>>
    /\ todo = <<>>
    /\ files = {}
    /\ out = "none"
    /\ obs = NoObs
    /\ prev = NoRun
    /\ ret = NoCall
    /\ events = <<>>
    /\ throttle = NoThrottle
    /\ call = NoFunction

\* time passes
Tick ==
    /\ pc = "icos"
    /\ throttle.clock < MaxClock
    /\ throttle' = [ throttle EXCEPT !.clock = @ + 1 ]
    /\ UNCHANGED << run_state, call >>

\* if _NEXT_QUERY_TIME is not None: wait for it
EnterRunQuery ==
    /\ pc = "icos"
    /\ throttle.at = "idle"
    /\ LET resume == IF throttle.next_query_time = NULL THEN throttle.clock
                     ELSE pause_until(throttle.clock,
                                      throttle.next_query_time[1])
       IN /\ resume <= MaxClock
          /\ throttle' = [ throttle EXCEPT !.clock = resume, !.at = "ready" ]
    /\ UNCHANGED << run_state, call >>

\* query_start = datetime.now(); the query is sent
StartQuery ==
    /\ pc = "icos"
    /\ throttle.at = "ready"
    /\ throttle' = [ throttle EXCEPT !.query_start = throttle.clock,
                                     !.at = "querying" ]
    /\ UNCHANGED << run_state, call >>

\* meta.sparql_select returns; query_end = datetime.now()
EndQuery ==
    /\ pc = "icos"
    /\ throttle.at = "querying"
    /\ throttle' = [ throttle EXCEPT !.query_end = throttle.clock,
                                     !.at = "returned" ]
    /\ UNCHANGED << run_state, call >>

\* _NEXT_QUERY_TIME = datetime.now() + (query_time * 2); last keeps the
\* start and the duration of the query that has just ended.
SetNextQueryTime ==
    /\ pc = "icos"
    /\ throttle.at = "returned"
    /\ LET query_time == throttle.query_end - throttle.query_start IN
       throttle' = [ throttle EXCEPT
                        !.next_query_time =
                            Some(next_query_time(throttle.clock, query_time)),
                        !.last = Some([ start |-> throttle.query_start,
                                        time |-> query_time ]),
                        !.at = "idle" ]
    /\ UNCHANGED << run_state, call >>

NextThrottle ==
    \/ Tick
    \/ EnterRunQuery
    \/ StartQuery
    \/ EndQuery
    \/ SetNextQueryTime

SpecThrottle == InitThrottle /\ [][NextThrottle]_vars

\* A query that follows another one starts no sooner than twice the
\* duration of that one after its start.
StartsAfterTwiceTheDuration ==
    ( throttle.at \in {"querying", "returned"} /\ throttle.last # NULL ) =>
        throttle.query_start >=
            throttle.last[1].start + 2 * throttle.last[1].time

\* _NEXT_QUERY_TIME, once set, is never None again and never earlier.
DeadlineNeverEarlier ==
    throttle.next_query_time # NULL =>
        /\ throttle'.next_query_time # NULL
        /\ throttle'.next_query_time[1] >= throttle.next_query_time[1]

\* C14: every query after the first starts at least twice the duration of
\* the query before it after that query's start, and _NEXT_QUERY_TIME is
\* never reset nor moved to an earlier time.
C14_AdaptiveThrottle ==
    []StartsAfterTwiceTheDuration /\ [][DeadlineNeverEarlier]_vars

\* A query that took time was followed by a query that started exactly
\* when _NEXT_QUERY_TIME allowed it.
C14_Witness ==
    /\ throttle.at = "querying"
    /\ throttle.last # NULL
    /\ throttle.last[1].time > 0
    /\ throttle.next_query_time = Some(throttle.query_start)

----------------------------------------------------------------------------
(* The functions of database.py on an id that is not, or is already, in    *)
(* the table.                                                              *)

\* The functions that need the id to be in the table.
NeedsRow == { "is_deleted", "mark_deleted", "undelete", "set_metadata",
              "clear_new", "write_datasets_xml" }

\* C15: is_deleted, mark_deleted, undelete, set_metadata, clear_new and
\* write_datasets_xml called with an id that is not in the table raise
\* ValueError ("not in database"), add_pid called with an id that is in the
\* table, deleted or not, raises sqlite3.IntegrityError, and in both cases
\* the call leaves every row of the table as it was.
C15_FailedCallsChangeNothing ==
    [][ /\ ( ret'.op \in NeedsRow /\ ret'.pid \notin DOMAIN conn ) =>
              ( ret'.exc = "ValueError" /\ conn' = conn /\ db' = db )
        /\ ( ret'.op = "add_pid" /\ ret'.pid \in DOMAIN conn ) =>
              ( ret'.exc = "IntegrityError" /\ conn' = conn /\ db' = db )
      ]_vars

\* mark_deleted has failed on an id that is not in the table, which holds
\* another id, deleted.
C15_Witness ==
    /\ ret.op = "mark_deleted"
    /\ ret.exc = "ValueError"
    /\ ret.pid \notin DOMAIN conn
    /\ \E p \in DOMAIN conn : conn[p].deleted = 1

----------------------------------------------------------------------------
(* csv_retriever/app.py: one request.                                      *)

Text == {"x", NEWLINE}

\* What data.get_csv_byte_stream can do for a pid.
Streams ==
    { Returned(<< "x" >>) }
    \cup { HttpFailure(before, status, response) :
              before \in Strings(Text, 1),
              status \in Strings(Digits, 2) \ { <<>> },
              response \in Strings(Text, 2) }
    \cup { OtherFailure(<<>>) }
    \cup { OtherFailure(<< message >>) :
              message \in Strings(Characters, MaxMessage) }

InitCsv ==
    /\ db = EmptyTable
    /\ conn = EmptyTable
    /\ pc = "csv"
    /\ run = "none"
    /\ catalog = EmptyCatalog
    /\ now = 0
    /\ datasets = <<>>
    /\ todo = <<>>
    /\ files = {}
    /\ out = "none"
    /\ obs = NoObs
    /\ prev = NoRun
    /\ ret = NoCall
    /\ events = <<>>
    /\ throttle = NoThrottle
    /\ call \in { [ fn |-> "none", arg |-> stream, result |-> <<>> ] :
                     stream \in Streams }

\* GET /<pid>
CallGetCsv ==
    /\ pc = "csv"
    /\ call.fn = "none"
    /\ call' = [ call EXCEPT !.fn = "get_csv", !.result = get_csv(call.arg) ]
    /\ UNCHANGED << run_state, throttle >>

NextCsv == CallGetCsv

SpecCsv == InitCsv /\ [][NextCsv]_vars

\* C16: get_csv returns the content when the retrieval succeeds; when the
\* retrieval fails, whatever the exception, get_csv raises nothing itself,
\* and for the failure of an HTTP request it returns the status code and
\* the message of that failure.
C16_FailureBecomesResponse ==
    call.fn = "get_csv" =>
        /\ call.result.exc = "none"
        /\ call.arg.kind = "ok" => call.result.body = call.arg.content
        /\ call.arg.kind = "http" =>
              /\ call.result.status = int(call.arg.status)
              /\ call.result.body = call.arg.response

----------------------------------------------------------------------------
(* populate_erddap.py: one entry of the column of other attributes.        *)

Entries == Strings({"a", ":", "="}, MaxEntry)

InitAttribute ==
    /\ db = EmptyTable
    /\ conn = EmptyTable
    /\ pc = "attribute"
    /\ run = "none"
    /\ catalog = EmptyCatalog
    /\ now = 0
    /\ datasets = <<>>
    /\ todo = <<>>
    /\ files = {}
    /\ out = "none"
    /\ obs = NoObs
    /\ prev = NoRun
    /\ ret = NoCall
    /\ events = <<>>
    /\ throttle = NoThrottle
    /\ call \in { [ fn |-> "none", arg |-> attr, result |-> <<>> ] :
                     attr \in Entries }

\* for attr in other_attrs
CallParseAttribute ==
    /\ pc = "attribute"
    /\ call.fn = "none"
    /\ call' = [ call EXCEPT !.fn = "parse_attribute",
                             !.result = parse_attribute(call.arg) ]
    /\ UNCHANGED << run_state, throttle >>

NextAttribute == CallParseAttribute

SpecAttribute == InitAttribute /\ [][NextAttribute]_vars

\* The places of the separators of name:type=value in attr, the name
\* holding no ":" and the type no "=": the first ":" and the first "="
\* after it; 0 if there is none.
FirstColon(attr) ==
    IF \E i \in 1..Len(attr) : attr[i] = ":"
    THEN CHOOSE i \in 1..Len(attr) :
             attr[i] = ":" /\ \A k \in 1..(i - 1) : attr[k] # ":"
    ELSE 0
FirstEqualsAfter(attr, i) ==
    IF \E j \in (i + 1)..Len(attr) : attr[j] = "="
    THEN CHOOSE j \in (i + 1)..Len(attr) :
             attr[j] = "=" /\ \A k \in (i + 1)..(j - 1) : attr[k] # "="
    ELSE 0

\* C17: an entry name:type=value, the name holding no ":" and the type no
\* "=", is parsed to that name, that type and that value, whatever the
\* three strings are; an entry without ":" or without "=" raises
\* ValueError ("Invalid attribute specification").
C17_AttributeParsedAsWritten ==
    call.fn = "parse_attribute" =>
        LET attr == call.arg
            i == FirstColon(attr)
            j == FirstEqualsAfter(attr, i)
        IN  /\ ( i # 0 /\ j # 0 ) =>
                  /\ call.result.exc = "none"
                  /\ call.result.name = Slice(attr, 1, i - 1)
                  /\ call.result.type = Slice(attr, i + 1, j - 1)
                  /\ call.result.value = Slice(attr, j + 1, Len(attr))
            /\ ( \/ \A k \in 1..Len(attr) : attr[k] # ":"
                 \/ \A k \in 1..Len(attr) : attr[k] # "=" ) =>
                  call.result.exc = "ValueError"

----------------------------------------------------------------------------
(* Runs as a whole.                                                        *)

\* C18: when the listing of a run of update_from_icos is empty while the
\* table has active rows, every row that was active before the run is
\* still active after it.
C18_EmptyListingDeletesNothing ==
    ( /\ run = "update"
      /\ RunEnds
      /\ obs.listed
      /\ datasets = <<>>
      /\ Active(db) # {} ) =>
        \A p \in Active(db) : PostStore[p].deleted = 0

\* No deleted row of the table c is new or updated.
DeletedRowsAtRest(c) ==
    \A p \in DOMAIN c : c[p].deleted = 1 => c[p].new = 0 /\ c[p].updated = 0

\* C19: whatever runs of update_from_icos and populate_erddap have been
\* made, one at a time, every deleted row has new = 0 and updated = 0, in
\* the committed table and in the transaction of the run in hand; no run
\* stores metadata for a row that is deleted nor downloads the payload of
\* one.
C19_DeletedRowsAtRest ==
    /\ DeletedRowsAtRest(db)
    /\ DeletedRowsAtRest(conn)
    /\ \A p \in DOMAIN conn :
          /\ Happened("set_metadata", p) => conn[p].deleted = 0
          /\ ( \/ Happened("save_to_folder", p)
               \/ Happened("save_to_folder_failed", p) ) => conn[p].deleted = 0

\* A run is about to commit the deletion of a row that was new and updated.
C19_Witness ==
    /\ run = "update"
    /\ pc = "commit"
    /\ \E p \in DOMAIN db :
          /\ db[p].deleted = 0
          /\ db[p].new = 1
          /\ db[p].updated = 1
          /\ conn[p].deleted = 1

\* C20: the committed table changes only when a run reaches the end of
\* its with block: no step of a run before that changes it, and a run that
\* an exception ends, wherever it is raised, exits with 1 and leaves the
\* committed table, and the connection, at the table the run started with.
C20_AbortedRunChangesNothing ==
    [][ /\ pc # "commit" => db' = db
        /\ pc = "abort" => ( db' = db /\ conn' = db /\ prev'.exit = 1 )
      ]_vars

\* A run that had changed rows in its transaction has ended by an
\* exception.
C20_Witness ==
    /\ pc = "idle"
    /\ prev.exit = 1
    /\ prev.lost


====
